---- MODULE Spec2Model ----
(***************************************************************************)
(* classic2d-sandbox: the Sandbox render loop (index.ts), the Test driver  *)
(* (test.ts) and the debug-draw batches RenderLine / RenderPoint /         *)
(* RenderText / DebugDraw (debug-draw.ts).                                 *)
(*                                                                         *)
(* The physics engine (World of classic2d) and the user's action handlers  *)
(* are opaque: a call into them is recorded in a call trace and their      *)
(* effect on the modelled state is a nondeterministic input.               *)
(***************************************************************************)
EXTENDS Integers, Sequences, FiniteSets, TLC

(***************************************************************************)
(* Program constants.                                                      *)
(***************************************************************************)
MAX_MATRICES == 512
RenderLine_MAX_VERTICES == MAX_MATRICES * 2
RenderLine_MAX_COLORS == MAX_MATRICES * 4
RenderLine_MAX_INDICES == MAX_MATRICES
RenderPoint_MAX_VERTICES == 512
RenderPoint_MAX_COLORS == RenderPoint_MAX_VERTICES * 2
RenderPoint_MAX_INDICES == RenderPoint_MAX_VERTICES \div 2
COLOR_COMPONENTS == 4
CIRCLE_SEGMENT == 32
DEFAULT_SIZE == 12

(***************************************************************************)
(* Bounds of the model.                                                    *)
(***************************************************************************)
MaxPending == 2       \* run() is not called while this many callbacks wait
MaxNow == 2           \* last animation-frame timestamp explored
MaxCalls == 3         \* addVertices calls (SpecLine), vertex bursts (SpecPoint)
MaxCapFlushes == 1    \* SpecDraw: no drawCircle after this many capacity flushes
MaxDrawPoints == 1    \* SpecDraw: points buffered at a time
MaxTexts == 1         \* SpecDraw: texts queued at a time
MaxRuns == 2          \* SpecRanges: runs of addVertices calls
MaxConsole == 1       \* SpecShader: no new DebugDraw once this many messages are logged

(***************************************************************************)
(* A typed array (Float32Array of `size` elements, zero filled) is kept as *)
(* the sequence of its elements up to the highest index written; the rest  *)
(* reads as 0.  A write outside 0..size-1 is ignored, as typed arrays do.  *)
(***************************************************************************)
ArrRead(a, i) == IF i >= 0 /\ i < Len(a) THEN a[i + 1] ELSE 0

ArrWrite(a, size, i, v) ==
  IF i < 0 \/ i >= size THEN a
  ELSE IF i < Len(a) THEN [a EXCEPT ![i + 1] = v]
  ELSE a \o [k \in 1..(i - Len(a)) |-> 0] \o <<v>>

(***************************************************************************)
(* A loop `for (i = lo; i < hi; i++) s = Body(s, i)` over a record s,      *)
(* evaluated in order by halving so that long loops do not nest deeply     *)
(* (the test on DOMAIN only makes the first half be evaluated first).      *)
(***************************************************************************)
RECURSIVE ForLoop(_, _, _, _)
ForLoop(Body(_, _), s, lo, hi) ==
  IF lo >= hi THEN s
  ELSE IF hi = lo + 1 THEN Body(s, lo)
  ELSE LET mid == lo + ((hi - lo) \div 2)
           s1 == ForLoop(Body, s, lo, mid)
       IN IF DOMAIN s1 = {} THEN s1 ELSE ForLoop(Body, s1, mid, hi)

(***************************************************************************)
(* The DebugDraw object `dd`:                                              *)
(*   dd.lines   RenderLine  [vertices, count, matrices, matricesCount, oob]*)
(*   dd.points  RenderPoint [vertices, count, oob]                         *)
(*              both with program, what programInfo.program holds: a       *)
(*              linked "program" or "null"                                 *)
(*   dd.text    RenderText  [texts, yOffset]                               *)
(*   dd.gl      the calls issued on the WebGL context (clear and the       *)
(*              vertices each drawElements draws)                          *)
(*   dd.gl2d    the calls issued on the 2D canvas context                  *)
(* In the render loop gl and gl2d hold the calls of the last operation; in *)
(* the batch specifications they hold every call since construction.       *)
(* oob records that a write fell outside vertices or colors; capFlushes    *)
(* counts the flush() calls addVertices has made; badRange records that a  *)
(* flush found a recorded range that is empty, reaches outside the index   *)
(* buffer or does not start where the one before it ends.  The content of  *)
(* colors is not kept, only where it is written.                           *)
(***************************************************************************)
NewRenderLine ==
  [vertices |-> <<>>, count |-> 0, matrices |-> <<>>, matricesCount |-> 0,
   oob |-> FALSE, capFlushes |-> 0, badRange |-> FALSE, program |-> "program"]

NewRenderPoint ==
  [vertices |-> <<>>, count |-> 0, oob |-> FALSE, program |-> "program"]

NewRenderText == [texts |-> <<>>, yOffset |-> 0]

NewDebugDraw ==
  [lines |-> NewRenderLine, points |-> NewRenderPoint, text |-> NewRenderText,
   gl |-> <<>>, gl2d |-> <<>>]

\* gl.drawElements(gl.LINES, n, UNSIGNED_SHORT, offset * 2) under `matrix`:
\* element k of the index buffer is k, so it draws vertices offset..offset+n-1;
\* a range outside the index buffer is INVALID_OPERATION and draws nothing.
DrawLines(vertices, matrix, offset, n) ==
  IF offset + n > RenderLine_MAX_INDICES
  THEN << [op |-> "error", m |-> matrix, x |-> offset, y |-> n] >>
  ELSE [k \in 1..n |->
         [op |-> "line", m |-> matrix,
          x |-> ArrRead(vertices, 2 * (offset + k - 1)),
          y |-> ArrRead(vertices, 2 * (offset + k - 1) + 1)]]

\* gl.drawElements(gl.POINTS, n, UNSIGNED_SHORT, 0)
DrawPoints(vertices, n) ==
  IF n > RenderPoint_MAX_INDICES
  THEN << [op |-> "error", m |-> 0, x |-> 0, y |-> n] >>
  ELSE [k \in 1..n |->
         [op |-> "point", m |-> 0,
          x |-> ArrRead(vertices, 2 * (k - 1)),
          y |-> ArrRead(vertices, 2 * (k - 1) + 1)]]

RECURSIVE FlushRanges(_, _, _, _)
\* the loop of RenderLine.flush over matrices[i], i < matricesCount: the
\* draws of the ranges in order (computed by halving, to keep the
\* evaluation shallow)
FlushRanges(vertices, matrices, i, matricesCount) ==
  IF i >= matricesCount THEN <<>>
  ELSE IF matricesCount = i + 1
  THEN LET matrix == matrices[i + 1]
       IN DrawLines(vertices, matrix.matrix, matrix.offset, matrix.count)
  ELSE LET mid == i + ((matricesCount - i) \div 2)
       IN FlushRanges(vertices, matrices, i, mid)
            \o FlushRanges(vertices, matrices, mid, matricesCount)

\* the first n recorded ranges are non-empty, inside the index buffer, and
\* each starts where the one before it ends (the first at 0)
RangesOk(matrices, n) ==
  \A i \in 1..n :
    /\ matrices[i].count >= 1
    /\ matrices[i].offset + matrices[i].count <= RenderLine_MAX_INDICES
    /\ matrices[i].offset =
         IF i = 1 THEN 0 ELSE matrices[i - 1].offset + matrices[i - 1].count

RenderLine_flush(dd) ==
  LET l == dd.lines IN
  IF l.matricesCount = 0 THEN dd
  ELSE [dd EXCEPT
         !.gl = @ \o FlushRanges(l.vertices, l.matrices, 0, l.matricesCount),
         !.lines.count = 0,
         !.lines.matricesCount = 0,
         !.lines.badRange = @ \/ ~RangesOk(l.matrices, l.matricesCount)]

\* PushMatrix, were every range recorded as running from its offset to the
\* end of the buffered vertices counted from 0
PushMatrix_WholeBuffer(l, matrix, lastVertices) ==
  LET entry == [matrix |-> matrix, offset |-> lastVertices \div 2,
                count |-> l.count \div 2]
  IN [l EXCEPT
       !.matrices = IF l.matricesCount < Len(@)
                    THEN [@ EXCEPT ![l.matricesCount + 1] = entry]
                    ELSE Append(@, entry),
       !.matricesCount = @ + 1]

\* this.matrices[this.matricesCount++] = { matrix, offset, count }
PushMatrix(l, matrix, lastVertices) ==
  LET entry == [matrix |-> matrix, offset |-> lastVertices \div 2,
                count |-> (l.count - lastVertices) \div 2]
  IN [l EXCEPT
       !.matrices = IF l.matricesCount < Len(@)
                    THEN [@ EXCEPT ![l.matricesCount + 1] = entry]
                    ELSE Append(@, entry),
       !.matricesCount = @ + 1]

\* AddVertexStep, were the range recorded before every capacity flush (the
\* test `i > 0` left out)
AddVertexStep_AlwaysPush(s, matrix, first, i) ==
  LET full == s.dd.lines.count = RenderLine_MAX_VERTICES
      d0 == IF full
            THEN [s.dd EXCEPT !.lines = PushMatrix(@, matrix, s.lastVertices)]
            ELSE s.dd
      d1 == IF full
            THEN [RenderLine_flush(d0) EXCEPT !.lines.capFlushes = @ + 1]
            ELSE s.dd
      lastVertices == IF full THEN d1.lines.count ELSE s.lastVertices
      l == d1.lines
      v1 == ArrWrite(l.vertices, RenderLine_MAX_VERTICES, l.count, first + i)
      v2 == ArrWrite(v1, RenderLine_MAX_VERTICES, l.count + 1, 0 - (first + i))
      count == l.count + 2
      offset == (count \div 2 - 1) * COLOR_COMPONENTS
      oob == \/ l.count + 1 >= RenderLine_MAX_VERTICES
             \/ offset + COLOR_COMPONENTS - 1 >= RenderLine_MAX_COLORS
  IN [dd |-> [d1 EXCEPT !.lines.vertices = v2,
                        !.lines.count = count,
                        !.lines.oob = @ \/ oob],
      lastVertices |-> lastVertices]

\* AddVertexStep, were the capacity test `this.count > MAX_VERTICES`
AddVertexStep_LateFlush(s, matrix, first, i) ==
  LET full == s.dd.lines.count > RenderLine_MAX_VERTICES
      d0 == IF full /\ i > 0
            THEN [s.dd EXCEPT !.lines = PushMatrix(@, matrix, s.lastVertices)]
            ELSE s.dd
      d1 == IF full
            THEN [RenderLine_flush(d0) EXCEPT !.lines.capFlushes = @ + 1]
            ELSE s.dd
      lastVertices == IF full THEN d1.lines.count ELSE s.lastVertices
      l == d1.lines
      v1 == ArrWrite(l.vertices, RenderLine_MAX_VERTICES, l.count, first + i)
      v2 == ArrWrite(v1, RenderLine_MAX_VERTICES, l.count + 1, 0 - (first + i))
      count == l.count + 2
      offset == (count \div 2 - 1) * COLOR_COMPONENTS
      oob == \/ l.count + 1 >= RenderLine_MAX_VERTICES
             \/ offset + COLOR_COMPONENTS - 1 >= RenderLine_MAX_COLORS
  IN [dd |-> [d1 EXCEPT !.lines.vertices = v2,
                        !.lines.count = count,
                        !.lines.oob = @ \/ oob],
      lastVertices |-> lastVertices]

\* One iteration of the loop of addVertices.  s = [dd, lastVertices];
\* ps[i] is the vertex with x = first + i, y = -(first + i).
AddVertexStep(s, matrix, first, i) ==
  LET full == s.dd.lines.count = RenderLine_MAX_VERTICES
      d0 == IF full /\ i > 0
            THEN [s.dd EXCEPT !.lines = PushMatrix(@, matrix, s.lastVertices)]
            ELSE s.dd
      d1 == IF full
            THEN [RenderLine_flush(d0) EXCEPT !.lines.capFlushes = @ + 1]
            ELSE s.dd
      lastVertices == IF full THEN d1.lines.count ELSE s.lastVertices
      l == d1.lines
      v1 == ArrWrite(l.vertices, RenderLine_MAX_VERTICES, l.count, first + i)
      v2 == ArrWrite(v1, RenderLine_MAX_VERTICES, l.count + 1, 0 - (first + i))
      count == l.count + 2
      offset == (count \div 2 - 1) * COLOR_COMPONENTS
      oob == \/ l.count + 1 >= RenderLine_MAX_VERTICES
             \/ offset + COLOR_COMPONENTS - 1 >= RenderLine_MAX_COLORS
  IN [dd |-> [d1 EXCEPT !.lines.vertices = v2,
                        !.lines.count = count,
                        !.lines.oob = @ \/ oob],
      lastVertices |-> lastVertices]

RenderLine_addVertices(dd, matrix, first, len) ==
  LET Body(s, i) == AddVertexStep(s, matrix, first, i)
      s0 == [dd |-> dd, lastVertices |-> dd.lines.count]
      s1 == ForLoop(Body, s0, 0, len)
  IN [s1.dd EXCEPT !.lines = PushMatrix(@, matrix, s1.lastVertices)]

RenderPoint_flush(dd) ==
  LET p == dd.points IN
  IF p.count = 0 THEN dd
  ELSE [dd EXCEPT !.gl = @ \o DrawPoints(p.vertices, p.count \div 2),
                  !.points.count = 0]

\* RenderPoint.vertex, were the capacity test left out
RenderPoint_vertex_NoFlush(dd, id) ==
  LET p == dd.points
      v1 == ArrWrite(p.vertices, RenderPoint_MAX_VERTICES, p.count, id)
      v2 == ArrWrite(v1, RenderPoint_MAX_VERTICES, p.count + 1, 0 - id)
      count == p.count + 2
      colorOffset == (count \div 2 - 1) * COLOR_COMPONENTS
      oob == \/ p.count + 1 >= RenderPoint_MAX_VERTICES
             \/ colorOffset + COLOR_COMPONENTS - 1 >= RenderPoint_MAX_COLORS
  IN [dd EXCEPT !.points.vertices = v2,
                !.points.count = count,
                !.points.oob = @ \/ oob]

\* vertex is the point with x = id, y = -id
RenderPoint_vertex(dd, id) ==
  LET d1 == IF dd.points.count = RenderPoint_MAX_VERTICES
            THEN RenderPoint_flush(dd) ELSE dd
      p == d1.points
      v1 == ArrWrite(p.vertices, RenderPoint_MAX_VERTICES, p.count, id)
      v2 == ArrWrite(v1, RenderPoint_MAX_VERTICES, p.count + 1, 0 - id)
      count == p.count + 2
      colorOffset == (count \div 2 - 1) * COLOR_COMPONENTS
      oob == \/ p.count + 1 >= RenderPoint_MAX_VERTICES
             \/ colorOffset + COLOR_COMPONENTS - 1 >= RenderPoint_MAX_COLORS
  IN [d1 EXCEPT !.points.vertices = v2,
                !.points.count = count,
                !.points.oob = @ \/ oob]

RenderText_fill(dd, text, x, y) ==
  [dd EXCEPT !.text.texts = Append(@, [text |-> text, x |-> x, y |-> y])]

RenderText_print(dd, text) ==
  LET d1 == RenderText_fill(dd, text, 0, dd.text.yOffset)
  IN [d1 EXCEPT !.text.yOffset = @ + DEFAULT_SIZE]

\* RenderText.flush, were yOffset not reset
RenderText_flush_KeepOffset(dd) ==
  [dd EXCEPT
    !.gl2d = @ \o << [op |-> "clearRect", text |-> "", x |-> 0, y |-> 0] >>
               \o [k \in 1..Len(dd.text.texts) |->
                    [op |-> "fillText", text |-> dd.text.texts[k].text,
                     x |-> dd.text.texts[k].x, y |-> dd.text.texts[k].y]],
    !.text.texts = <<>>]

RenderText_flush(dd) ==
  [dd EXCEPT
    !.gl2d = @ \o << [op |-> "clearRect", text |-> "", x |-> 0, y |-> 0] >>
               \o [k \in 1..Len(dd.text.texts) |->
                    [op |-> "fillText", text |-> dd.text.texts[k].text,
                     x |-> dd.text.texts[k].x, y |-> dd.text.texts[k].y]],
    !.text.texts = <<>>,
    !.text.yOffset = 0]

\* ps of drawCircle has 2 * CIRCLE_SEGMENT vertices; the first call passes
\* [new Vec2(), ps[0]].  Vertex ids first, first+1 stand for the spoke and
\* first+2 .. for the rim.
DebugDraw_drawCircle(dd, matrix, first) ==
  LET d1 == RenderLine_addVertices(dd, matrix, first, 2)
  IN RenderLine_addVertices(d1, matrix, first + 2, 2 * CIRCLE_SEGMENT)

DebugDraw_drawPoint(dd, id) == RenderPoint_vertex(dd, id)

DebugDraw_drawText(dd, text, x, y) == RenderText_fill(dd, text, x, y)

DebugDraw_printText(dd, text) == RenderText_print(dd, text)

DebugDraw_flush(dd) == RenderPoint_flush(RenderText_flush(RenderLine_flush(dd)))

(***************************************************************************)
(* State.                                                                  *)
(*   actions   the handlers set in options.actions (fixed at construction) *)
(*   testSrc   which of the two sources of class Test / SandboxWorld runs: *)
(*             "test.ts" (src/src/test.ts, world.ts: the debug draw is a   *)
(*             constructor argument) or "part_003" (unnamed/part_003,      *)
(*             part_004: the debug draw is set later by setDebugDraw)      *)
(*   running, past, camera     fields of Sandbox                           *)
(*   test      the Test: [isPause, shouldMakeStep, contacts, debugDraw]    *)
(*             (debugDraw: whether a debug draw is attached)               *)
(*   dd        the DebugDraw object                                        *)
(*   pending   render callbacks registered by requestAnimationFrame and    *)
(*             not yet called                                              *)
(*   clock     timestamp of the last animation frame                       *)
(*   obs       what the last operation did: op ("constructor", "call" for  *)
(*             a public method, "keyDown", "frame"), arg (the key), traces *)
(*             (the calls made; one trace per render callback for an       *)
(*             animation frame) and pre (fields as they were before a key  *)
(*             event or a frame)                                           *)
(*   hist      key events so far: parity of 'p' events, whether an 'o'     *)
(*             event happened, and where the last 'o' request stands       *)
(*   calls     what has been submitted to the batches so far: lines (one   *)
(*             entry per addVertices call: its matrix, the id of its first *)
(*             vertex, the length of ps and count at the call), points     *)
(*             (how many), n (calls made)                                  *)
(*   browser   what the program runs in: strictNull (whether the WebGL     *)
(*             binding throws a TypeError when given null for a shader or  *)
(*             a program, or only records a GL error) and console (the     *)
(*             messages logged with console.error)                         *)
(***************************************************************************)
VARIABLES actions, testSrc, running, past, camera, test, dd, pending,
          clock, obs, hist, calls, browser

vars == <<actions, testSrc, running, past, camera, test, dd, pending,
          clock, obs, hist, calls, browser>>

ActionSets ==
  { {}, {"init", "reset", "keyDown", "preStep", "postStep"},
    {"reset", "preStep"}, {"init", "keyDown", "postStep"} }
TestSources == {"test.ts", "part_003"}
Keys == {"r", "p", "o", "P", "R"}
Zooms == {0, 1}
Deltas == {1, 2}
ContactIds == {1}

Ev(call, arg) == [call |-> call, arg |-> arg]

(***************************************************************************)
(* class Test.  s is the state a handler works on: the fields running,     *)
(* past, camera, test, dd, with trace (the calls made so far),             *)
(* scheduled (requestAnimationFrame calls made) and traces (the traces of  *)
(* the render callbacks of this animation frame).                          *)
(***************************************************************************)
Test_makeStep(t) == [t EXCEPT !.shouldMakeStep = TRUE]

\* pause(isPause = !this.isPause)
Test_pause(t, isPause) == [t EXCEPT !.isPause = isPause]

\* pause(), were the default of isPause `true`
Test_pauseDefault_Always(t) == Test_pause(t, TRUE)

Test_pauseDefault(t) == Test_pause(t, ~t.isPause)

Test_hasContact(t, c) == \E k \in 1..Len(t.contacts) : t.contacts[k] = c

Test_beginContact(t, c) ==
  IF ~Test_hasContact(t, c) THEN [t EXCEPT !.contacts = Append(@, c)] ELSE t

Test_clearContacts(t) == [t EXCEPT !.contacts = <<>>]

\* world.step(time): the engine reports the contacts of `begun` to its
\* contact listener, the Test.
World_step(s, time, begun) ==
  LET Body(t, i) == IF (i + 1) \in begun THEN Test_beginContact(t, i + 1) ELSE t
  IN [s EXCEPT !.trace = Append(@, Ev("world.step", time)),
               !.test = ForLoop(Body, @, 0, Cardinality(ContactIds))]

\* Test.step, were shouldMakeStep not reset
Test_step_KeepRequest(s, time, begun) ==
  LET s0 == [s EXCEPT !.trace = Append(@, Ev("Test.step", time))] IN
  IF ~s0.test.isPause \/ s0.test.shouldMakeStep
  THEN World_step(s0, time, begun)
  ELSE s0

Test_step(s, time, begun) ==
  LET s0 == [s EXCEPT !.trace = Append(@, Ev("Test.step", time))] IN
  IF ~s0.test.isPause \/ s0.test.shouldMakeStep
  THEN [World_step(s0, time, begun) EXCEPT !.test.shouldMakeStep = FALSE]
  ELSE s0

Test_drawContacts(s) ==
  IF ~s.test.debugDraw THEN s
  ELSE LET Body(d, i) == DebugDraw_drawPoint(d, s.test.contacts[i + 1])
       IN [s EXCEPT !.dd = ForLoop(Body, @, 0, Len(s.test.contacts))]

Test_drawHelp(s) ==
  IF ~s.test.debugDraw THEN s
  ELSE LET d1 == DebugDraw_printText(s.dd, "[R] - reset; [P] - pause; [O] - step")
           d2 == DebugDraw_printText(d1, "FPS")
           d3 == DebugDraw_printText(d2, "Frame time")
           d4 == IF s.test.isPause THEN DebugDraw_printText(d3, "[PAUSE]") ELSE d3
       IN [s EXCEPT !.dd = d4]

Test_flush(s) ==
  IF s.test.debugDraw
  THEN [s EXCEPT !.dd = DebugDraw_flush(@), !.trace = Append(@, Ev("flush", 0))]
  ELSE s

\* unnamed/part_003: drawContacts, then flush
Test_draw_part003(s, time) ==
  LET s0 == [s EXCEPT !.trace = Append(Append(@, Ev("Test.draw", time)),
                                       Ev("world.drawDebugData", 0))]
      s1 == Test_drawHelp(s0)
      s2 == Test_drawContacts(s1)
      s3 == Test_flush(s2)
  IN [s3 EXCEPT !.test = Test_clearContacts(@)]

\* src/src/test.ts: flush, then drawContacts
Test_draw_testts(s, time) ==
  LET s0 == [s EXCEPT !.trace = Append(Append(@, Ev("Test.draw", time)),
                                       Ev("world.drawDebugData", 0))]
      s1 == Test_drawHelp(s0)
      s2 == Test_flush(s1)
      s3 == Test_drawContacts(s2)
  IN [s3 EXCEPT !.test = Test_clearContacts(@)]

Test_draw(s, src, time) ==
  IF src = "part_003" THEN Test_draw_part003(s, time) ELSE Test_draw_testts(s, time)

(***************************************************************************)
(* class Sandbox.                                                          *)
(***************************************************************************)
\* clearFrame, were gl.clear not called
Sandbox_clearFrame_NoClear(s) == [s EXCEPT !.trace = Append(@, Ev("clearFrame", 0))]

\* gl.clear(COLOR_BUFFER_BIT | DEPTH_BUFFER_BIT)
Sandbox_clearFrame(s) ==
  [s EXCEPT !.trace = Append(@, Ev("clearFrame", 0)),
            !.dd.gl = Append(@, [op |-> "clear", m |-> 0, x |-> 0, y |-> 0])]

\* render, were past updated only in the frames that step the world
Sandbox_render_PastWhenStepped(s, acts, src, now, begun) ==
  IF ~s.running THEN s
  ELSE
    LET s1 == IF "preStep" \in acts
              THEN [s EXCEPT !.trace = Append(@, Ev("preStep", now))] ELSE s
        time == now - s1.past
        s2 == IF ~s1.test.isPause \/ s1.test.shouldMakeStep
              THEN [s1 EXCEPT !.past = now] ELSE s1
        s3 == Test_step(s2, time, begun)
        s4 == IF "postStep" \in acts
              THEN [s3 EXCEPT !.trace = Append(@, Ev("postStep", 0))] ELSE s3
        s5 == Sandbox_clearFrame(s4)
        s6 == Test_draw(s5, src, time)
    IN [s6 EXCEPT !.trace = Append(@, Ev("requestAnimationFrame", 0)),
                  !.scheduled = @ + 1]

\* render, were the test of this.running left out
Sandbox_render_NoGuard(s, acts, src, now, begun) ==
  LET s1 == IF "preStep" \in acts
            THEN [s EXCEPT !.trace = Append(@, Ev("preStep", now))] ELSE s
      time == now - s1.past
      s2 == [s1 EXCEPT !.past = now]
      s3 == Test_step(s2, time, begun)
      s4 == IF "postStep" \in acts
            THEN [s3 EXCEPT !.trace = Append(@, Ev("postStep", 0))] ELSE s3
      s5 == Sandbox_clearFrame(s4)
      s6 == Test_draw(s5, src, time)
  IN [s6 EXCEPT !.trace = Append(@, Ev("requestAnimationFrame", 0)),
                !.scheduled = @ + 1]

\* The render callback.  acts and src are this.actions and the Test source;
\* begun is what world.step will report.
Sandbox_render(s, acts, src, now, begun) ==
  IF ~s.running THEN s
  ELSE
    LET s1 == IF "preStep" \in acts
              THEN [s EXCEPT !.trace = Append(@, Ev("preStep", now))] ELSE s
        time == now - s1.past
        s2 == [s1 EXCEPT !.past = now]
        s3 == Test_step(s2, time, begun)
        s4 == IF "postStep" \in acts
              THEN [s3 EXCEPT !.trace = Append(@, Ev("postStep", 0))] ELSE s3
        s5 == Sandbox_clearFrame(s4)
        s6 == Test_draw(s5, src, time)
    IN [s6 EXCEPT !.trace = Append(@, Ev("requestAnimationFrame", 0)),
                  !.scheduled = @ + 1]

\* reset(), were it to run the init action again
Sandbox_reset_Reinit(s, acts) ==
  LET s1 == [s EXCEPT !.trace = Append(@, Ev("world.clear", 0))]
      s2 == IF "init" \in acts
            THEN [s1 EXCEPT !.trace = Append(@, Ev("init", 0))] ELSE s1
  IN IF "reset" \in acts
     THEN [s2 EXCEPT !.trace = Append(@, Ev("reset", 0))]
     ELSE s2

\* reset(), were it to resume the simulation as well
Sandbox_reset_Unpause(s, acts) ==
  LET s1 == [s EXCEPT !.trace = Append(@, Ev("world.clear", 0)),
                      !.test = Test_pause(@, FALSE)]
  IN IF "reset" \in acts
     THEN [s1 EXCEPT !.trace = Append(@, Ev("reset", 0))]
     ELSE s1

\* reset(): world.clear(), then the reset action
Sandbox_reset(s, acts) ==
  LET s1 == [s EXCEPT !.trace = Append(@, Ev("world.clear", 0))]
  IN IF "reset" \in acts
     THEN [s1 EXCEPT !.trace = Append(@, Ev("reset", 0))]
     ELSE s1

\* handleKeyDown, were the `break` of case 'o' missing: the event falls
\* through to the default case
Sandbox_handleKeyDown_FallThrough(s, acts, key) ==
  LET Default(t) == IF "keyDown" \in acts
                    THEN [t EXCEPT !.trace = Append(@, Ev("keyDown", 0))]
                    ELSE t
  IN CASE key = "r" -> Sandbox_reset(s, acts)
       [] key = "p" -> [s EXCEPT !.test = Test_pauseDefault(@)]
       [] key = "o" -> Default([s EXCEPT !.test = Test_makeStep(Test_pause(@, TRUE))])
       [] OTHER -> Default(s)

Sandbox_handleKeyDown(s, acts, key) ==
  CASE key = "r" -> Sandbox_reset(s, acts)
    [] key = "p" -> [s EXCEPT !.test = Test_pauseDefault(@)]
    [] key = "o" -> [s EXCEPT !.test = Test_makeStep(Test_pause(@, TRUE))]
    [] OTHER -> IF "keyDown" \in acts
                THEN [s EXCEPT !.trace = Append(@, Ev("keyDown", 0))]
                ELSE s

\* the calls of the constructor: the world (which creates its Test), the
\* Test taken from it, then the init action
Sandbox_constructor(acts) ==
  << Ev("new SandboxWorld", 0), Ev("world.getTest", 0) >>
    \o (IF "init" \in acts THEN << Ev("init", 0) >> ELSE <<>>)

Sandbox_run(s) == [s EXCEPT !.running = TRUE, !.scheduled = @ + 1]

Sandbox_stop(s) == [s EXCEPT !.running = FALSE]

\* remove() of createSandbox: sandbox.stop(), then the canvases are removed
Sandbox_remove(s) == Sandbox_stop(s)

Sandbox_zoom(s, zoom) == [s EXCEPT !.camera.zoom = zoom]

\* setDebugDraw(draw): part_004 hands the draw to the Test as well
Sandbox_setDebugDraw(s, src) ==
  LET s1 == [s EXCEPT !.trace = Append(@, Ev("world.setDebugDraw", 0))]
  IN IF src = "part_003" THEN [s1 EXCEPT !.test.debugDraw = TRUE] ELSE s1

\* the state a handler starts from
Here == [running |-> running, past |-> past, camera |-> camera,
         test |-> test, dd |-> [dd EXCEPT !.gl = <<>>, !.gl2d = <<>>],
         trace |-> <<>>, scheduled |-> 0, traces |-> <<>>]

Obs(op, arg, traces, pre) == [op |-> op, arg |-> arg, traces |-> traces, pre |-> pre]

Pre0 == [isPause |-> FALSE, shouldMakeStep |-> FALSE, running |-> FALSE,
         zoom |-> 0, pending |-> 0]

Pre == [isPause |-> test.isPause, shouldMakeStep |-> test.shouldMakeStep,
        running |-> running, zoom |-> camera.zoom, pending |-> pending]

Hist0 == [pOdd |-> FALSE, oSeen |-> FALSE, oPhase |-> "none"]

Calls0 == [lines |-> <<>>, points |-> 0, n |-> 0]

\* a browser whose WebGL binding takes null, with nothing logged
Browser0 == [strictNull |-> FALSE, console |-> <<>>]

\* the fields of the Sandbox after a handler that ended in state s
Commit(s) ==
  /\ running' = s.running
  /\ past' = s.past
  /\ camera' = s.camera
  /\ test' = s.test
  /\ dd' = s.dd

(***************************************************************************)
(* The render loop: construction, the public methods, key events and the   *)
(* browser's animation frames.                                             *)
(***************************************************************************)
\* new Sandbox(options): the world and its Test are created, then the init
\* action runs.
Init ==
  /\ actions \in ActionSets
  /\ testSrc \in TestSources
  /\ running = FALSE
  /\ past = 0
  /\ camera = [zoom |-> 0, width |-> 1, height |-> 1]
  /\ test = [isPause |-> FALSE, shouldMakeStep |-> FALSE, contacts |-> <<>>,
             debugDraw |-> (testSrc = "test.ts")]
  /\ dd = NewDebugDraw
  /\ pending = 0
  /\ clock = 0
  /\ obs = Obs("constructor", "", << Sandbox_constructor(actions) >>, Pre0)
  /\ hist = Hist0
  /\ calls = Calls0
  /\ browser = Browser0

run ==
  /\ pending < MaxPending
  /\ LET s == Sandbox_run(Here) IN
       /\ Commit(s)
       /\ pending' = pending + s.scheduled
       /\ obs' = Obs("call", "", << s.trace >>, Pre0)
  /\ UNCHANGED <<actions, testSrc, clock, hist, calls, browser>>

stop ==
  /\ LET s == Sandbox_stop(Here) IN
       /\ Commit(s)
       /\ pending' = pending + s.scheduled
       /\ obs' = Obs("call", "", << s.trace >>, Pre0)
  /\ UNCHANGED <<actions, testSrc, clock, hist, calls, browser>>

remove ==
  /\ LET s == Sandbox_remove(Here) IN
       /\ Commit(s)
       /\ pending' = pending + s.scheduled
       /\ obs' = Obs("call", "", << s.trace >>, Pre0)
  /\ UNCHANGED <<actions, testSrc, clock, hist, calls, browser>>

zoom ==
  /\ \E z \in Zooms :
       LET s == Sandbox_zoom(Here, z) IN
         /\ Commit(s)
         /\ pending' = pending + s.scheduled
         /\ obs' = Obs("call", "", << s.trace >>, Pre0)
  /\ UNCHANGED <<actions, testSrc, clock, hist, calls, browser>>

setDebugDraw ==
  /\ LET s == Sandbox_setDebugDraw(Here, testSrc) IN
       /\ Commit(s)
       /\ pending' = pending + s.scheduled
       /\ obs' = Obs("call", "", << s.trace >>, Pre0)
  /\ UNCHANGED <<actions, testSrc, clock, hist, calls, browser>>

\* what the key events so far amount to, after one more
HistKey(h, key) ==
  CASE key = "p" -> [h EXCEPT !.pOdd = ~@, !.oPhase = "none"]
    [] key = "o" -> [h EXCEPT !.oSeen = TRUE, !.oPhase = "requested"]
    [] OTHER -> h

\* ... and after the render callbacks of a running frame
HistFrame(h) ==
  CASE h.oPhase = "requested" -> [h EXCEPT !.oPhase = "consumed"]
    [] h.oPhase = "consumed" -> [h EXCEPT !.oPhase = "idle"]
    [] OTHER -> h

\* a keydown event delivered to Sandbox.keyDown
keyDown ==
  /\ \E key \in Keys :
       LET s == Sandbox_handleKeyDown(Here, actions, key) IN
         /\ Commit(s)
         /\ pending' = pending + s.scheduled
         /\ obs' = Obs("keyDown", key, << s.trace >>, Pre)
         /\ hist' = HistKey(hist, key)
  /\ UNCHANGED <<actions, testSrc, clock, calls, browser>>

\* One animation frame: the browser calls every callback registered before
\* the frame, all with the same timestamp; callbacks registered meanwhile
\* wait for the next frame.  begun[i] is what world.step reports in
\* callback i.
AnimationFrame ==
  /\ pending > 0
  /\ \E dt \in Deltas, begun \in [0..(pending - 1) -> SUBSET ContactIds] :
       LET now == clock + dt
           Body(s, i) ==
             LET r == Sandbox_render([s EXCEPT !.trace = <<>>], actions, testSrc,
                                     now, begun[i])
             IN [r EXCEPT !.traces = Append(@, r.trace)]
           s1 == ForLoop(Body, Here, 0, pending)
       IN /\ running => now <= MaxNow
          /\ Commit(s1)
          /\ pending' = s1.scheduled
          /\ clock' = IF running THEN now ELSE clock
          /\ obs' = Obs("frame", "", s1.traces, Pre)
          /\ hist' = IF running THEN HistFrame(hist) ELSE hist
  /\ UNCHANGED <<actions, testSrc, calls, browser>>

Next ==
  \/ run
  \/ stop
  \/ remove
  \/ zoom
  \/ setDebugDraw
  \/ keyDown
  \/ AnimationFrame

Spec == Init /\ [][Next]_vars

\* a sandbox constructed with every action set, so that each call render
\* can make shows in the trace
InitAllActions ==
  /\ Init
  /\ actions = {"init", "reset", "keyDown", "preStep", "postStep"}

\* The browser keeps delivering animation frames while callbacks wait.  Only
\* the frames of a stopped sandbox are needed below, so fairness is stated
\* for these alone (it follows from fairness of AnimationFrame).
FairSpec ==
  /\ InitAllActions
  /\ [][Next]_vars
  /\ WF_vars(~running /\ AnimationFrame)

(***************************************************************************)
(* The batches on their own.  The render loop stands still: its variables  *)
(* keep the values of a sandbox that was constructed and never run.        *)
(***************************************************************************)
InitBatch ==
  /\ actions = {}
  /\ testSrc = "part_003"
  /\ running = FALSE
  /\ past = 0
  /\ camera = [zoom |-> 0, width |-> 1, height |-> 1]
  /\ test = [isPause |-> FALSE, shouldMakeStep |-> FALSE, contacts |-> <<>>,
             debugDraw |-> FALSE]
  /\ dd = NewDebugDraw
  /\ pending = 0
  /\ clock = 0
  /\ obs = Obs("constructor", "", <<>>, Pre0)
  /\ hist = Hist0
  /\ calls = Calls0
  /\ browser = Browser0

loopVars ==
  <<actions, testSrc, running, past, camera, test, pending, clock, hist, browser>>

\* the batches as they are before a call
PreBatch(len) ==
  [lineCount |-> dd.lines.count, matricesCount |-> dd.lines.matricesCount,
   capFlushes |-> dd.lines.capFlushes, pointCount |-> dd.points.count,
   texts |-> Len(dd.text.texts), len |-> len]

\* vertices submitted to RenderLine so far
Submitted ==
  IF calls.lines = <<>> THEN 0
  ELSE calls.lines[Len(calls.lines)].first + calls.lines[Len(calls.lines)].len - 1

LineCall(matrix, first, len, count) ==
  [matrix |-> matrix, first |-> first, len |-> len, startCount |-> count]

PsLens == {0, 1, 2, 511, 513}

\* RenderLine.addVertices(matrix, ps, color) with a fresh matrix and len
\* fresh vertices
addVertices ==
  /\ calls.n < MaxCalls
  /\ \E len \in PsLens :
       LET matrix == calls.n + 1
           first == Submitted + 1
       IN /\ dd' = RenderLine_addVertices(dd, matrix, first, len)
          /\ calls' = [calls EXCEPT
                         !.lines = Append(@, LineCall(matrix, first, len, dd.lines.count)),
                         !.n = @ + 1]
          /\ obs' = Obs("addVertices", "", <<>>, PreBatch(len))
  /\ UNCHANGED loopVars

lineFlush ==
  /\ dd' = RenderLine_flush(dd)
  /\ obs' = Obs("flush", "", <<>>, PreBatch(0))
  /\ UNCHANGED <<loopVars, calls>>

NextLine == addVertices \/ lineFlush

SpecLine == InitBatch /\ [][NextLine]_vars

\* RenderLine.addVertices called `reps` times in a row, every call with a
\* matrix of its own and `len` >= 1 vertices, as a frame with many bodies
\* makes them; and flush.
Runs == {1, 511, 513}
RunLens == {1, 2}

addRun ==
  /\ calls.n < MaxRuns
  /\ \E reps \in Runs, len \in RunLens :
       LET Body(d, i) == RenderLine_addVertices(d, i + 1, i * len + 1, len)
       IN /\ dd' = ForLoop(Body, dd, 0, reps)
          /\ calls' = [calls EXCEPT !.n = @ + 1]
          /\ obs' = Obs("addVertices", "", <<>>, PreBatch(reps * len))
  /\ UNCHANGED loopVars

NextRanges == addRun \/ lineFlush

SpecRanges == InitBatch /\ [][NextRanges]_vars

Bursts == {1, 2, 255, 257}

\* n calls of RenderPoint.vertex in a row, as the loop of drawContacts makes
\* them, with fresh points
vertex ==
  /\ calls.n < MaxCalls
  /\ \E n \in Bursts :
       LET Body(d, i) == RenderPoint_vertex(d, calls.points + i + 1)
       IN /\ dd' = ForLoop(Body, dd, 0, n)
          /\ calls' = [calls EXCEPT !.points = @ + n, !.n = @ + 1]
          /\ obs' = Obs("vertex", "", <<>>, PreBatch(n))
  /\ UNCHANGED loopVars

pointFlush ==
  /\ dd' = RenderPoint_flush(dd)
  /\ obs' = Obs("flush", "", <<>>, PreBatch(0))
  /\ UNCHANGED <<loopVars, calls>>

NextPoint == vertex \/ pointFlush

SpecPoint == InitBatch /\ [][NextPoint]_vars

Texts == {"a"}
Matrices == {1}
PointIds == {1}

\* the DebugDraw object before a call of its interface in SpecDraw, where
\* gl and gl2d hold the calls of the last operation
DrawHere == [dd EXCEPT !.gl = <<>>, !.gl2d = <<>>]

\* whether every batch holds something
PreDraw ==
  [all |-> dd.lines.count > 0 /\ dd.points.count > 0 /\ dd.text.texts # <<>>]

\* drawCircle(position, angle, radius, color): ps is the unit circle whatever
\* the arguments, which only make the matrix
drawCircle ==
  /\ dd.lines.capFlushes < MaxCapFlushes
  /\ \E matrix \in Matrices :
       dd' = DebugDraw_drawCircle(DrawHere, matrix, 1)
  /\ obs' = Obs("call", "", <<>>, Pre0)
  /\ UNCHANGED <<loopVars, calls>>

drawPoint ==
  /\ dd.points.count \div 2 < MaxDrawPoints
  /\ \E id \in PointIds :
       dd' = DebugDraw_drawPoint(DrawHere, id)
  /\ obs' = Obs("call", "", <<>>, Pre0)
  /\ UNCHANGED <<loopVars, calls>>

drawText ==
  /\ Len(dd.text.texts) < MaxTexts
  /\ \E text \in Texts :
       dd' = DebugDraw_drawText(DrawHere, text, 1, 1)
  /\ obs' = Obs("call", "", <<>>, Pre0)
  /\ UNCHANGED <<loopVars, calls>>

printText ==
  /\ Len(dd.text.texts) < MaxTexts
  /\ \E text \in Texts :
       dd' = DebugDraw_printText(DrawHere, text)
  /\ obs' = Obs("call", "", <<>>, Pre0)
  /\ UNCHANGED <<loopVars, calls>>

flush ==
  /\ dd' = DebugDraw_flush(DrawHere)
  /\ obs' = Obs("flush", "", <<>>, PreDraw)
  /\ UNCHANGED <<loopVars, calls>>

NextDraw == drawCircle \/ drawPoint \/ drawText \/ printText \/ flush

SpecDraw == InitBatch /\ [][NextDraw]_vars

(***************************************************************************)
(* Shader programs (debug-draw.ts: loadShader, initShaderProgram and the   *)
(* constructors that use them).  c is the state the constructor works on:  *)
(* trace (the calls of the constructor running), traces (the traces of the *)
(* constructors finished), console, strictNull, thrown (an exception is    *)
(* propagating), result (the value last returned) and lines / points (the  *)
(* program each batch has kept).  Whether a shader compiles and whether a  *)
(* program links are inputs.  The buffers the constructors create are left *)
(* out.                                                                    *)
(***************************************************************************)
CompileError == "An error occurred compiling the shaders: "
LinkError == "Unable to initialize the shader program: "

\* A call on gl that is given `value` ("shader", "program" or "null") for a
\* shader or a program.  Given null, a binding with non-nullable parameters
\* throws a TypeError; one with nullable parameters records INVALID_VALUE
\* and goes on.
GlCall(c, call, value) ==
  IF c.thrown THEN c
  ELSE LET c1 == [c EXCEPT !.trace = Append(@, Ev(call, value))]
       IN IF c.strictNull /\ value = "null"
          THEN [c1 EXCEPT !.trace = Append(@, Ev("TypeError", call)),
                          !.thrown = TRUE]
          ELSE c1

\* loadShader, were the shader returned although it did not compile
loadShader_ReturnsShader(c, type, compiles) ==
  IF c.thrown THEN c
  ELSE
    LET c1 == [c EXCEPT !.trace = @ \o << Ev("createShader", type),
                                          Ev("shaderSource", type),
                                          Ev("compileShader", type),
                                          Ev("getShaderParameter", type) >>]
    IN IF ~compiles
       THEN [c1 EXCEPT !.trace = @ \o << Ev("getShaderInfoLog", type),
                                         Ev("console.error", CompileError),
                                         Ev("deleteShader", type) >>,
                       !.console = Append(@, CompileError),
                       !.result = "shader"]
       ELSE [c1 EXCEPT !.result = "shader"]

loadShader(c, type, compiles) ==
  IF c.thrown THEN c
  ELSE
    LET c1 == [c EXCEPT !.trace = @ \o << Ev("createShader", type),
                                          Ev("shaderSource", type),
                                          Ev("compileShader", type),
                                          Ev("getShaderParameter", type) >>]
    IN IF ~compiles
       THEN [c1 EXCEPT !.trace = @ \o << Ev("getShaderInfoLog", type),
                                         Ev("console.error", CompileError),
                                         Ev("deleteShader", type) >>,
                       !.console = Append(@, CompileError),
                       !.result = "null"]
       ELSE [c1 EXCEPT !.result = "shader"]

\* initShaderProgram from the test of LINK_STATUS on: status is what
\* getProgramParameter answers
initShaderProgram_status(c, status) ==
  IF c.thrown THEN c
  ELSE IF ~status
  THEN [c EXCEPT !.trace = @ \o << Ev("getProgramParameter", "program"),
                                   Ev("getProgramInfoLog", "program"),
                                   Ev("console.error", LinkError) >>,
                 !.console = Append(@, LinkError),
                 !.result = "null"]
  ELSE [c EXCEPT !.trace = Append(@, Ev("getProgramParameter", "program")),
                 !.result = "program"]

\* LINK_STATUS is true only if both shaders were attached and the program
\* links (links is the input)
initShaderProgram(c, vsCompiles, fsCompiles, links) ==
  LET c1 == loadShader(c, "VERTEX_SHADER", vsCompiles)
      vertexShader == c1.result
      c2 == loadShader(c1, "FRAGMENT_SHADER", fsCompiles)
      fragmentShader == c2.result
      c3 == [c2 EXCEPT !.trace = Append(@, Ev("createProgram", "program"))]
      c4 == GlCall(c3, "attachShader", vertexShader)
      c5 == GlCall(c4, "attachShader", fragmentShader)
      c6 == GlCall(c5, "linkProgram", "program")
  IN initShaderProgram_status(c6, /\ links
                                  /\ vertexShader = "shader"
                                  /\ fragmentShader = "shader")

\* new RenderLine(gl, camera) once initShaderProgram has returned c.result
RenderLine_locations(c) ==
  LET program == c.result
      c2 == GlCall(c, "getAttribLocation", program)
      c3 == GlCall(c2, "getAttribLocation", program)
      c4 == GlCall(c3, "getUniformLocation", program)
      c5 == GlCall(c4, "getUniformLocation", program)
      c6 == IF c5.thrown THEN c5
            ELSE [c5 EXCEPT !.trace = Append(@, Ev("bufferData", "indices")),
                            !.lines = program]
  IN [c6 EXCEPT !.traces = Append(@, c6.trace)]

\* new RenderLine(gl, camera)
RenderLine_constructor(c, vsCompiles, fsCompiles, links) ==
  RenderLine_locations(initShaderProgram([c EXCEPT !.trace = <<>>],
                                         vsCompiles, fsCompiles, links))

\* new RenderPoint(gl, camera) once initShaderProgram has returned c.result
RenderPoint_locations(c) ==
  LET program == c.result
      c2 == GlCall(c, "getAttribLocation", program)
      c3 == GlCall(c2, "getAttribLocation", program)
      c4 == GlCall(c3, "getUniformLocation", program)
      c5 == IF c4.thrown THEN c4
            ELSE [c4 EXCEPT !.trace = Append(@, Ev("bufferData", "indices")),
                            !.points = program]
  IN [c5 EXCEPT !.traces = Append(@, c5.trace)]

\* new RenderPoint(gl, camera)
RenderPoint_constructor(c, vsCompiles, fsCompiles, links) ==
  RenderPoint_locations(initShaderProgram([c EXCEPT !.trace = <<>>],
                                          vsCompiles, fsCompiles, links))

\* new DebugDraw(gl, gl2d, camera) once the line batch is built: the point
\* batch (then the text batch, which builds no shader), unless an exception
\* is propagating
DebugDraw_points(c, in) ==
  IF c.thrown THEN c
  ELSE RenderPoint_constructor(c, in[2].vs, in[2].fs, in[2].link)

\* new DebugDraw(gl, gl2d, camera).  in[k] is whether vertex shader,
\* fragment shader and program of batch k compile and link.
DebugDraw_constructor(c, in) ==
  DebugDraw_points(RenderLine_constructor(c, in[1].vs, in[1].fs, in[1].link),
                   in)

ShaderInputs == [vs : BOOLEAN, fs : BOOLEAN, link : BOOLEAN]

InitShader ==
  /\ actions = {}
  /\ testSrc = "part_003"
  /\ running = FALSE
  /\ past = 0
  /\ camera = [zoom |-> 0, width |-> 1, height |-> 1]
  /\ test = [isPause |-> FALSE, shouldMakeStep |-> FALSE, contacts |-> <<>>,
             debugDraw |-> FALSE]
  /\ dd = NewDebugDraw
  /\ pending = 0
  /\ clock = 0
  /\ obs = Obs("constructor", "", <<>>, Pre0)
  /\ hist = Hist0
  /\ calls = Calls0
  /\ browser \in {[strictNull |-> b, console |-> <<>>] : b \in BOOLEAN}

\* new DebugDraw(...), as the user of the sandbox calls it; the object
\* replaces the one held so far unless the constructor throws
newDebugDraw ==
  /\ Len(browser.console) < MaxConsole
  /\ \E in \in [1..2 -> ShaderInputs] :
       \E c \in {DebugDraw_constructor(
                   [trace |-> <<>>, traces |-> <<>>,
                    console |-> browser.console,
                    strictNull |-> browser.strictNull, thrown |-> FALSE,
                    result |-> "none", lines |-> "none", points |-> "none"],
                   in)} :
          /\ browser' = [browser EXCEPT !.console = c.console]
          /\ dd' = IF c.thrown THEN dd
                   ELSE [NewDebugDraw EXCEPT !.lines.program = c.lines,
                                             !.points.program = c.points]
          /\ obs' = Obs("new DebugDraw", "", c.traces,
                        [in |-> in, thrown |-> c.thrown,
                         console |-> browser.console])
  /\ UNCHANGED <<actions, testSrc, running, past, camera, test, pending,
                 clock, hist, calls>>

NextShader == newDebugDraw

SpecShader == InitShader /\ [][NextShader]_vars

(***************************************************************************)
(* Reading the traces.                                                     *)
(***************************************************************************)
CountCall(trace, call) == Cardinality({k \in 1..Len(trace) : trace[k].call = call})

IsTopLevel(e) ==
  e.call \in {"preStep", "Test.step", "postStep", "clearFrame", "Test.draw",
              "requestAnimationFrame"}

\* the calls render itself makes, by name
TopLevel(trace) ==
  LET t == SelectSeq(trace, IsTopLevel) IN [k \in 1..Len(t) |-> t[k].call]

Position(trace, call) == CHOOSE k \in 1..Len(trace) : trace[k].call = call

RunningFrame == obs.op = "frame" /\ running
StoppedFrame == obs.op = "frame" /\ ~running

\* fillText calls of the last operation that print `text`
Printed(text) ==
  Cardinality({k \in 1..Len(dd.gl2d) :
                 dd.gl2d[k].op = "fillText" /\ dd.gl2d[k].text = text})

(***************************************************************************)
(* C1.  After stop() (or remove()) and no later run(), a render callback   *)
(* that was already scheduled returns without calling preStep, Test.step,  *)
(* postStep, clearFrame or Test.draw and without scheduling another        *)
(* callback: an animation frame delivered while the sandbox is stopped     *)
(* makes no call at all and leaves no callback pending; and, the browser   *)
(* delivering frames, a stopped sandbox eventually has no callback pending *)
(* (unless run() is called again).                                         *)
(***************************************************************************)
C1_StoppedFrameIsInert ==
  StoppedFrame =>
    /\ \A k \in 1..Len(obs.traces) : obs.traces[k] = <<>>
    /\ pending = 0
    /\ dd.gl = <<>> /\ dd.gl2d = <<>>

C1_StopIsEffective ==
  /\ [](C1_StoppedFrameIsInert)
  /\ (~running) ~> (pending = 0 \/ running)

C1_Witness ==
  /\ StoppedFrame
  /\ Len(obs.traces) >= 1
  /\ obs.pre.pending >= 1
  /\ pending = 0

(***************************************************************************)
(* C2.  At most one render callback is pending at any time, so an          *)
(* animation frame runs the render callback (world.step, Test.draw) at     *)
(* most once.                                                              *)
(***************************************************************************)
C2_AtMostOneCallback ==
  /\ pending <= 1
  /\ obs.op = "frame" => Len(obs.traces) <= 1

(***************************************************************************)
(* C3.  While the sandbox is running every render callback calls, in this  *)
(* order and once each: preStep (if set), Test.step, postStep (if set),    *)
(* clearFrame, Test.draw, requestAnimationFrame; every callback schedules  *)
(* exactly one next callback; world.step comes before the frame is cleared *)
(* and drawn, and nothing is drawn on the WebGL context before its clear.  *)
(***************************************************************************)
ExpectedRender(acts) ==
  (IF "preStep" \in acts THEN <<"preStep">> ELSE <<>>)
    \o <<"Test.step">>
    \o (IF "postStep" \in acts THEN <<"postStep">> ELSE <<>>)
    \o <<"clearFrame", "Test.draw", "requestAnimationFrame">>

C3_RenderOrder ==
  RunningFrame =>
    /\ \A k \in 1..Len(obs.traces) :
         LET trace == obs.traces[k] IN
           /\ TopLevel(trace) = ExpectedRender(actions)
           /\ CountCall(trace, "world.step") <= 1
           /\ CountCall(trace, "world.step") = 1 =>
                Position(trace, "world.step") < Position(trace, "clearFrame")
           /\ CountCall(trace, "flush") = 1 =>
                Position(trace, "clearFrame") < Position(trace, "flush")
    /\ pending = Len(obs.traces)
    /\ \A k \in 1..Len(dd.gl) :
         dd.gl[k].op \in {"line", "point"} =>
           \E j \in 1..(k - 1) : dd.gl[j].op = "clear"

C3_Witness ==
  /\ RunningFrame
  /\ {"preStep", "postStep"} \subseteq actions
  /\ CountCall(obs.traces[1], "world.step") = 1
  /\ \E k \in 1..Len(dd.gl) : dd.gl[k].op = "point"

(***************************************************************************)
(* C4.  The 'p' key toggles pause.  As claimed: starting unpaused, after   *)
(* an odd number of 'p' key events (and no single-step request pending)    *)
(* every render callback calls world.step zero times while Test.draw runs  *)
(* and prints "[PAUSE]"; after an even number every render callback calls  *)
(* world.step exactly once and "[PAUSE]" is not printed.                   *)
(***************************************************************************)
C4_AsClaimed ==
  (RunningFrame /\ ~obs.pre.shouldMakeStep) =>
    IF hist.pOdd
    THEN /\ \A k \in 1..Len(obs.traces) :
              /\ CountCall(obs.traces[k], "world.step") = 0
              /\ CountCall(obs.traces[k], "Test.draw") = 1
         /\ Printed("[PAUSE]") = Len(obs.traces)
    ELSE /\ \A k \in 1..Len(obs.traces) :
              CountCall(obs.traces[k], "world.step") = 1
         /\ Printed("[PAUSE]") = 0

(***************************************************************************)
(* C4 as amended.  Every 'p' key event inverts the pause flag, so that,    *)
(* starting unpaused and with no 'o' key event, the flag is set exactly    *)
(* after an odd number of 'p' events.  While the flag is set and no        *)
(* single-step request is pending every render callback calls world.step   *)
(* zero times, Test.draw still runs and prints "[PAUSE]" if a debug draw   *)
(* is attached to the Test (nothing otherwise); while the flag is clear    *)
(* every render callback calls world.step exactly once and "[PAUSE]" is    *)
(* not printed.                                                            *)
(***************************************************************************)
C4_PauseToggle ==
  /\ (obs.op = "keyDown" /\ obs.arg = "p") =>
       (test.isPause = ~obs.pre.isPause)
  /\ ~hist.oSeen => (test.isPause = hist.pOdd)
  /\ (RunningFrame /\ ~obs.pre.shouldMakeStep) =>
       IF test.isPause
       THEN /\ \A k \in 1..Len(obs.traces) :
                 /\ CountCall(obs.traces[k], "world.step") = 0
                 /\ CountCall(obs.traces[k], "Test.draw") = 1
            /\ Printed("[PAUSE]") =
                 IF test.debugDraw THEN Len(obs.traces) ELSE 0
       ELSE /\ \A k \in 1..Len(obs.traces) :
                 CountCall(obs.traces[k], "world.step") = 1
            /\ Printed("[PAUSE]") = 0

C4_Witness ==
  /\ RunningFrame
  /\ hist.pOdd /\ ~hist.oSeen
  /\ test.debugDraw
  /\ Printed("[PAUSE]") = 1
  /\ CountCall(obs.traces[1], "world.step") = 0

(***************************************************************************)
(* C5.  The 'o' key single-steps: an 'o' key event leaves the simulation   *)
(* paused with a step requested, whatever the pause state was; the first   *)
(* render callback after it calls world.step exactly once and every later  *)
(* callback calls it zero times, until another 'o' or a 'p' key event; and *)
(* the step request is gone after every Test.step.                         *)
(***************************************************************************)
C5_SingleStep ==
  /\ (obs.op = "keyDown" /\ obs.arg = "o") =>
       (test.isPause /\ test.shouldMakeStep)
  /\ (RunningFrame /\ hist.oPhase = "consumed") =>
       /\ CountCall(obs.traces[1], "world.step") = 1
       /\ \A k \in 2..Len(obs.traces) : CountCall(obs.traces[k], "world.step") = 0
  /\ (RunningFrame /\ hist.oPhase = "idle") =>
       \A k \in 1..Len(obs.traces) : CountCall(obs.traces[k], "world.step") = 0
  /\ hist.oPhase \in {"consumed", "idle"} => test.isPause
  /\ RunningFrame => ~test.shouldMakeStep

C5_Witness ==
  /\ RunningFrame
  /\ hist.oPhase = "idle"
  /\ test.isPause

(***************************************************************************)
(* C6.  The 'r' key calls world.clear() first and then the reset action    *)
(* (if set) exactly once, and leaves the pause flag, the pending step      *)
(* request, the running flag, the camera and the scheduled callbacks as    *)
(* they were.                                                              *)
(***************************************************************************)
C6_ResetKeepsState ==
  (obs.op = "keyDown" /\ obs.arg = "r") =>
    /\ obs.traces[1] =
         << Ev("world.clear", 0) >>
           \o (IF "reset" \in actions THEN << Ev("reset", 0) >> ELSE <<>>)
    /\ obs.pre = Pre

C6_Witness ==
  /\ obs.op = "keyDown" /\ obs.arg = "r"
  /\ "reset" \in actions
  /\ test.isPause /\ test.shouldMakeStep
  /\ running /\ pending = 1
  /\ camera.zoom = 1

(***************************************************************************)
(* Reading the batches.                                                    *)
(***************************************************************************)
LineVertex(matrix, id) == [op |-> "line", m |-> matrix, x |-> id, y |-> 0 - id]

PointVertex(id) == [op |-> "point", m |-> 0, x |-> id, y |-> 0 - id]

RECURSIVE ExpectedLines(_, _)
\* every vertex submitted by the calls cs[i..], in submission order, each
\* under the matrix of its call
ExpectedLines(cs, i) ==
  IF i > Len(cs) THEN <<>>
  ELSE [k \in 1..cs[i].len |-> LineVertex(cs[i].matrix, cs[i].first + k - 1)]
         \o ExpectedLines(cs, i + 1)

ExpectedPoints(n) == [k \in 1..n |-> PointVertex(k)]

\* what a flush of the line batch would draw now
BufferedLines ==
  FlushRanges(dd.lines.vertices, dd.lines.matrices, 0, dd.lines.matricesCount)

\* capacity flushes of one addVertices call that starts with `count` floats
\* buffered and passes len vertices: one each time the buffer is full and
\* another vertex is to be stored
ExpectedCapFlushes(count, len) ==
  IF len = 0 THEN 0 ELSE (count \div 2 + len - 1) \div MAX_MATRICES

(***************************************************************************)
(* C7.  RenderLine flushes exactly when count equals MAX_VERTICES and      *)
(* another vertex is about to be stored: an addVertices call makes one     *)
(* capacity flush for each time that happens and no other; count is always *)
(* even and never exceeds MAX_VERTICES, and no write to vertices or colors *)
(* is out of bounds.                                                       *)
(***************************************************************************)
C7_LineCapacity ==
  /\ dd.lines.count % 2 = 0
  /\ dd.lines.count >= 0
  /\ dd.lines.count <= RenderLine_MAX_VERTICES
  /\ Len(dd.lines.vertices) <= RenderLine_MAX_VERTICES
  /\ ~dd.lines.oob
  /\ obs.op = "addVertices" =>
       /\ dd.lines.capFlushes - obs.pre.capFlushes
            = ExpectedCapFlushes(obs.pre.lineCount, obs.pre.len)
       /\ obs.pre.len > 0 =>
            dd.lines.count
              = 2 * (((obs.pre.lineCount \div 2 + obs.pre.len - 1) % MAX_MATRICES) + 1)

C7_Witness ==
  /\ obs.op = "addVertices"
  /\ dd.lines.capFlushes - obs.pre.capFlushes = 2
  /\ obs.pre.lineCount = RenderLine_MAX_VERTICES

(***************************************************************************)
(* C8.  RenderLine loses and duplicates nothing: what all flushes have     *)
(* drawn, followed by what a flush would draw now, is every submitted      *)
(* vertex exactly once, in submission order, each under the matrix of the  *)
(* addVertices call that submitted it; after a flush everything submitted  *)
(* has been drawn.                                                         *)
(***************************************************************************)
C8_LinesDrawnOnce ==
  /\ dd.gl \o BufferedLines = ExpectedLines(calls.lines, 1)
  /\ obs.op = "flush" =>
       /\ dd.gl = ExpectedLines(calls.lines, 1)
       /\ Len(dd.gl) = Submitted

\* a call was split by a capacity flush, another found the buffer full, and
\* a final flush followed
C8_Witness ==
  /\ obs.op = "flush"
  /\ Submitted > MAX_MATRICES
  /\ \E i \in 1..Len(calls.lines) :
       /\ calls.lines[i].startCount < RenderLine_MAX_VERTICES
       /\ calls.lines[i].startCount > 0
       /\ calls.lines[i].startCount \div 2 + calls.lines[i].len > MAX_MATRICES
  /\ \E i \in 1..Len(calls.lines) :
       /\ calls.lines[i].startCount = RenderLine_MAX_VERTICES
       /\ calls.lines[i].len > 0
  /\ dd.gl = ExpectedLines(calls.lines, 1)

(***************************************************************************)
(* C9.  RenderPoint: count never exceeds MAX_VERTICES, no write is out of  *)
(* bounds, no draw call takes more than MAX_INDICES points, and what the   *)
(* flushes have drawn followed by what is buffered is every submitted      *)
(* point exactly once, in order; after a flush every point has been drawn. *)
(***************************************************************************)
C9_PointsDrawnOnce ==
  /\ dd.points.count % 2 = 0
  /\ dd.points.count <= RenderPoint_MAX_VERTICES
  /\ dd.points.count \div 2 <= RenderPoint_MAX_INDICES
  /\ ~dd.points.oob
  /\ dd.gl \o DrawPoints(dd.points.vertices, dd.points.count \div 2)
       = ExpectedPoints(calls.points)
  /\ obs.op = "flush" => dd.gl = ExpectedPoints(calls.points)

C9_Witness ==
  /\ obs.op = "flush"
  /\ calls.points > 2 * RenderPoint_MAX_INDICES
  /\ obs.pre.pointCount > 0
  /\ dd.gl = ExpectedPoints(calls.points)

(***************************************************************************)
(* C10.  After DebugDraw.flush() the line batch has count = 0 and          *)
(* matricesCount = 0, the point batch has count = 0 and the text batch has *)
(* no queued text and yOffset = 0; between calls, buffered line vertices   *)
(* always have a range recorded (count > 0 implies matricesCount > 0), so  *)
(* the early return of RenderLine.flush leaves nothing behind.             *)
(***************************************************************************)
C10_FlushClears ==
  /\ obs.op = "flush" =>
       /\ dd.lines.count = 0
       /\ dd.lines.matricesCount = 0
       /\ dd.points.count = 0
       /\ dd.text.texts = <<>>
       /\ dd.text.yOffset = 0
  /\ dd.lines.count > 0 => dd.lines.matricesCount > 0

C10_Witness ==
  /\ obs.op = "flush"
  /\ obs.pre.all
  /\ dd.lines.capFlushes >= 1
  /\ \E k \in 1..Len(dd.gl2d) : dd.gl2d[k].op = "fillText" /\ dd.gl2d[k].y = 0
  /\ \E k \in 1..Len(dd.gl) : dd.gl[k].op = "point"
  /\ \E k \in 1..Len(dd.gl) : dd.gl[k].op = "line"

\* the argument of the first `call` in a trace
ArgOf(trace, call) == trace[Position(trace, call)].arg

(***************************************************************************)
(* C12.  The preStep action receives a time delta: in every running frame  *)
(* the value passed to actions.preStep is the value passed to Test.step    *)
(* (and so to world.step) in that frame.  Stated of the first render       *)
(* callback of the frame, the only one when run() was called once.         *)
(***************************************************************************)
C12_PreStepGetsDelta ==
  (RunningFrame /\ "preStep" \in actions) =>
    ArgOf(obs.traces[1], "preStep") = ArgOf(obs.traces[1], "Test.step")

(***************************************************************************)
(* C13.  The init action is invoked exactly once per Sandbox, by the       *)
(* constructor, after the world and its Test have been created and before  *)
(* any render frame (nothing is running or scheduled yet); no other        *)
(* operation (reset, run, stop, a key event, a frame) invokes it, and the  *)
(* constructor does not invoke the reset action.                           *)
(***************************************************************************)
C13_InitOnce ==
  /\ obs.op = "constructor" =>
       /\ obs.traces =
            << << Ev("new SandboxWorld", 0), Ev("world.getTest", 0) >>
                 \o (IF "init" \in actions THEN << Ev("init", 0) >> ELSE <<>>) >>
       /\ CountCall(obs.traces[1], "reset") = 0
       /\ ~running /\ pending = 0 /\ clock = 0
  /\ obs.op # "constructor" =>
       \A k \in 1..Len(obs.traces) : CountCall(obs.traces[k], "init") = 0

\* a reset by the 'r' key after frames have run, in a sandbox with both actions
C13_Witness ==
  /\ obs.op = "keyDown" /\ obs.arg = "r"
  /\ {"init", "reset"} \subseteq actions
  /\ clock >= 1
  /\ CountCall(obs.traces[1], "reset") = 1
  /\ CountCall(obs.traces[1], "init") = 0

(***************************************************************************)
(* C14.  Provided every addVertices call passes at least one vertex (as    *)
(* every call of SpecRanges does), matricesCount never exceeds             *)
(* MAX_MATRICES, and the ranges recorded, now and at every flush so far,   *)
(* have count >= 1 and offset + count <= MAX_INDICES and are contiguous in *)
(* increasing offset order, starting at 0 and ending at the buffered       *)
(* vertex count; no draw call was refused.                                 *)
(***************************************************************************)
C14_RangesInBounds ==
  /\ dd.lines.matricesCount <= MAX_MATRICES
  /\ dd.lines.matricesCount <= dd.lines.count \div 2
  /\ ~dd.lines.badRange
  /\ RangesOk(dd.lines.matrices, dd.lines.matricesCount)
  /\ dd.lines.matricesCount > 0 =>
       LET last == dd.lines.matrices[dd.lines.matricesCount]
       IN last.offset + last.count = dd.lines.count \div 2
  /\ \A k \in 1..Len(dd.gl) : dd.gl[k].op # "error"

\* the table is full (512 ranges of one vertex each) after a capacity flush
\* that drew a full table
C14_Witness ==
  /\ dd.lines.matricesCount = MAX_MATRICES
  /\ dd.lines.capFlushes >= 1
  /\ Len(dd.gl) >= MAX_MATRICES

(***************************************************************************)
(* C15.  Key dispatch is exclusive: a key event whose key is 'r', 'p' or   *)
(* 'o' is never forwarded to actions.keyDown; any other key (upper-case    *)
(* 'P' and 'R' among them) is forwarded to actions.keyDown exactly once    *)
(* when that action is set, makes no other call (so the world is not       *)
(* cleared) and leaves the pause flag, the step request, the running flag, *)
(* the camera and the scheduled callbacks as they were.                    *)
(***************************************************************************)
C15_KeyDispatch ==
  obs.op = "keyDown" =>
    IF obs.arg \in {"r", "p", "o"}
    THEN CountCall(obs.traces[1], "keyDown") = 0
    ELSE /\ obs.traces[1] =
              IF "keyDown" \in actions THEN << Ev("keyDown", 0) >> ELSE <<>>
         /\ obs.pre = Pre

\* an upper-case 'P' while paused with a step requested: forwarded, and the
\* sandbox stays as it was
C15_Witness ==
  /\ obs.op = "keyDown" /\ obs.arg = "P"
  /\ "keyDown" \in actions
  /\ obs.traces[1] = << Ev("keyDown", 0) >>
  /\ test.isPause /\ test.shouldMakeStep
  /\ running

(***************************************************************************)
(* C16.  Debug geometry of a frame is drawn in that frame: Test.draw       *)
(* submits the contact points before it flushes the debug draw, so when    *)
(* Test.draw returns (and with it the render callback) no contact point is *)
(* left buffered in the point batch.                                       *)
(***************************************************************************)
C16_NoPointLeftBuffered ==
  RunningFrame => dd.points.count = 0

(***************************************************************************)
(* C17.  past is the timestamp of the last running frame (0 before the     *)
(* first); in a running frame the time passed to Test.step (and by it to   *)
(* world.step, when it steps) is the frame's timestamp minus past as it    *)
(* was before the frame, and past becomes the frame's timestamp whether or *)
(* not the simulation is paused: the first world.step after a pause gets   *)
(* the duration of one frame.  (A further render callback of the same      *)
(* frame finds past already at the frame's timestamp and passes 0.)        *)
(***************************************************************************)
C17_FrameStep ==
  (obs'.op = "frame" /\ running') =>
    /\ ArgOf(obs'.traces[1], "Test.step") = clock' - past
    /\ \A k \in 2..Len(obs'.traces) : ArgOf(obs'.traces[k], "Test.step") = 0
    /\ \A k \in 1..Len(obs'.traces) :
         CountCall(obs'.traces[k], "world.step") = 1 =>
           ArgOf(obs'.traces[k], "world.step") = ArgOf(obs'.traces[k], "Test.step")
    /\ past' = clock'

C17_StepTime ==
  /\ [](past = clock)
  /\ [][C17_FrameStep]_vars

\* a running frame of a paused simulation, after an earlier running frame:
\* world.step is not called, Test.step gets the time since that frame, and
\* past has moved to this frame's timestamp
C17_Witness ==
  /\ RunningFrame
  /\ obs.pre.isPause /\ test.isPause
  /\ CountCall(obs.traces[1], "world.step") = 0
  /\ clock = MaxNow
  /\ ArgOf(obs.traces[1], "Test.step") = 1
  /\ past = clock

(***************************************************************************)
(* C11: shader failures.                                                   *)
(***************************************************************************)
\* the positions in a trace of a call with an argument
Positions(trace, call, arg) ==
  {k \in 1..Len(trace) : trace[k] = Ev(call, arg)}

\* loadShader(type) in a trace: one compileShader, and when the shader does
\* not compile one message on the console followed at once by deleteShader
LoadShaderSeen(trace, type, compiles) ==
  /\ Cardinality(Positions(trace, "compileShader", type)) = 1
  /\ Cardinality(Positions(trace, "deleteShader", type))
       = (IF compiles THEN 0 ELSE 1)
  /\ \A k \in Positions(trace, "deleteShader", type) :
       /\ k > 1
       /\ trace[k - 1] = Ev("console.error", CompileError)
       /\ \E j \in Positions(trace, "compileShader", type) : j < k

\* one constructor's trace, given whether its shaders compile and its
\* program links
ShaderFailureSeen(trace, in, strictNull) ==
  LET failed == ~(in.vs /\ in.fs /\ in.link)
      attach == {k \in 1..Len(trace) : trace[k].call = "attachShader"}
      threw == CountCall(trace, "TypeError") > 0
      nulls == Len(SelectSeq(trace, LAMBDA e : e.arg = "null"))
  IN /\ LoadShaderSeen(trace, "VERTEX_SHADER", in.vs)
     /\ LoadShaderSeen(trace, "FRAGMENT_SHADER", in.fs)
     /\ Len(SelectSeq(trace, LAMBDA e : e = Ev("console.error", CompileError)))
          = (IF in.vs THEN 0 ELSE 1) + (IF in.fs THEN 0 ELSE 1)
     \* the program is created and the vertex shader attached whatever
     \* loadShader returned
     /\ CountCall(trace, "createProgram") = 1
     /\ attach # {}
     /\ \A k \in attach :
          /\ k > Position(trace, "createProgram")
          /\ (\A j \in attach : k <= j) =>
               trace[k].arg = (IF in.vs THEN "shader" ELSE "null")
          /\ (\E j \in attach : j < k) =>
               trace[k].arg = (IF in.fs THEN "shader" ELSE "null")
     \* nothing is thrown by the code: an exception comes from a call on gl
     \* that was handed null, and ends the constructor
     /\ threw =>
          /\ strictNull
          /\ failed
          /\ nulls = 1
          /\ trace[Len(trace)].call = "TypeError"
          /\ trace[Len(trace) - 1].arg = "null"
     /\ (failed /\ strictNull) => threw
     \* otherwise both shaders are attached, a failed link is logged once and
     \* the constructor looks the locations up in what initShaderProgram
     \* returned
     /\ ~threw =>
          /\ Cardinality(attach) = 2
          /\ CountCall(trace, "linkProgram") = 1
          /\ Len(SelectSeq(trace, LAMBDA e : e = Ev("console.error", LinkError)))
               = (IF failed THEN 1 ELSE 0)
          /\ failed =>
               trace[Position(trace, "getAttribLocation") - 1]
                 = Ev("console.error", LinkError)
          /\ \A k \in 1..Len(trace) :
               trace[k].call \in {"getAttribLocation", "getUniformLocation"}
                 => trace[k].arg = (IF failed THEN "null" ELSE "program")
          /\ CountCall(trace, "getAttribLocation") = 2
          /\ trace[Len(trace)] = Ev("bufferData", "indices")

\* C11: a shader that does not compile is logged, deleted and attached as
\* null, a program that does not link is logged and used as null by the
\* constructor of the batch; the code throws nothing and tries nothing
\* again, the only exception being the TypeError of a context that does
\* not take null.
C11_ShaderFailure ==
  obs.op = "new DebugDraw" =>
    LET in == obs.pre.in
        n == Len(obs.traces)
        logged == [k \in 1..2 |->
                     IF k > n THEN 0
                     ELSE CountCall(obs.traces[k], "console.error")]
    IN /\ n \in 1..2
       /\ \A k \in 1..n :
            ShaderFailureSeen(obs.traces[k], in[k], browser.strictNull)
       /\ n = 1 <=> CountCall(obs.traces[1], "TypeError") > 0
       /\ obs.pre.thrown <=>
            CountCall(obs.traces[n], "TypeError") > 0
       /\ Len(browser.console)
            = Len(obs.pre.console) + logged[1] + logged[2]
       /\ ~obs.pre.thrown =>
            /\ dd.lines.program
                 = (IF in[1].vs /\ in[1].fs /\ in[1].link
                    THEN "program" ELSE "null")
            /\ dd.points.program
                 = (IF in[2].vs /\ in[2].fs /\ in[2].link
                    THEN "program" ELSE "null")

\* a line batch built although its vertex shader did not compile, and a
\* point batch built although its program did not link
C11_Witness ==
  /\ obs.op = "new DebugDraw"
  /\ ~obs.pre.thrown
  /\ ~obs.pre.in[1].vs
  /\ obs.pre.in[2].vs /\ obs.pre.in[2].fs /\ ~obs.pre.in[2].link
  /\ Positions(obs.traces[1], "attachShader", "null") # {}
  /\ Positions(obs.traces[2], "getAttribLocation", "null") # {}
  /\ dd.lines.program = "null"
  /\ dd.points.program = "null"

====
